---- MODULE Spec2Model ----
(***************************************************************************)
(* A model of the NOC value tree (src/noc/value.rs) and of the built-in    *)
(* functions (src/noc/functions.rs).                                       *)
(*                                                                         *)
(* A Rust String is a sequence of one-character strings, so that           *)
(* formatting, joining, parsing and the byte order of keys are computed    *)
(* and not assumed.  A Value is a record tagged by its variant:            *)
(*   [t |-> "String", s |-> text]                                          *)
(*   [t |-> "Dict",   m |-> function from keys to Values]                  *)
(*   [t |-> "List",   v |-> sequence of Values]                            *)
(***************************************************************************)
EXTENDS Integers, Sequences, FiniteSets, TLC

VARIABLES root, alt, pending, last

vars == <<root, alt, pending, last>>

(***************************************************************************)
(* Bounds of the model.                                                    *)
(***************************************************************************)
\* longest key path handed to insert
MaxPathLen == 3
\* largest number of Dict entries (at all levels) a tree may hold
MaxNodes == 4
\* longest argument list handed to a function
MaxArgs == 3
\* width in bits of the model's i64.  TLC computes in 32 bits, so the model
\* scales the 64 bits of the source down; i64::MAX is 2^(IntBits-1) - 1
IntBits == 8
\* decimal digits the model's f64 keeps after the point
FracDigits == 1

(***************************************************************************)
(* Text                                                                    *)
(***************************************************************************)
\* the characters the model uses, in ascending byte order
Bytes ==
    <<"\t", "\n", " ", "\"", ",", "-", ".", "0", "1", "2", "3", "4", "5",
      "6", "7", "8", "9", "[", "]", "a", "b", "c", "x", "y", "{", "}">>

Ord(c) == CHOOSE i \in 1..Len(Bytes) : Bytes[i] = c

\* Ord for String: lexicographic on bytes, a proper prefix comes first
RECURSIVE str_lt(_, _)
str_lt(a, b) ==
    IF a = <<>> THEN b # <<>>
    ELSE IF b = <<>> THEN FALSE
    ELSE IF Head(a) = Head(b) THEN str_lt(Tail(a), Tail(b))
    ELSE Ord(Head(a)) < Ord(Head(b))

\* [T]::join(sep)
RECURSIVE str_join(_, _)
str_join(strs, sep) ==
    IF strs = <<>> THEN <<>>
    ELSE IF Len(strs) = 1 THEN strs[1]
    ELSE strs[1] \o sep \o str_join(Tail(strs), sep)

\* iter::repeat(c).take(n).collect::<String>()
RECURSIVE str_repeat(_, _)
str_repeat(c, n) == IF n = 0 THEN <<>> ELSE <<c>> \o str_repeat(c, n - 1)

(***************************************************************************)
(* Value                                                                   *)
(***************************************************************************)
String(s) == [t |-> "String", s |-> s]
Dict(m) == [t |-> "Dict", m |-> m]
List(v) == [t |-> "List", v |-> v]

\* HashMap::new()
HashMap_new == [k \in {} |-> 0]

\* Option
None == [some |-> FALSE]
Some(x) == [some |-> TRUE, val |-> x]

\* Result
Ok(x) == [ok |-> TRUE, val |-> x]
Err(e) == [ok |-> FALSE, err |-> e]

\* the outcome of a call that panics (unwrap on None, arithmetic overflow)
Panic == [t |-> "Panic"]

is_string(v) == v.t = "String"
is_dict(v) == v.t = "Dict"
is_list(v) == v.t = "List"

as_str(v) == IF v.t = "String" THEN Some(v.s) ELSE None
as_dict(v) == IF v.t = "Dict" THEN Some(v.m) ELSE None
as_dict_mut(v) == IF v.t = "Dict" THEN Some(v.m) ELSE None

\* HashMap::remove: the map without the key
map_remove(map, key) == [k \in DOMAIN map \ {key} |-> map[k]]
\* what HashMap::remove returns
map_removed(map, key) == IF key \in DOMAIN map THEN Some(map[key]) ELSE None
\* HashMap::insert
map_insert(map, key, value) ==
    [k \in DOMAIN map \cup {key} |-> IF k = key THEN value ELSE map[k]]
\* HashMap::get
map_get(map, key) == IF key \in DOMAIN map THEN Some(map[key]) ELSE None

(***************************************************************************)
(* Value::insert                                                           *)
(***************************************************************************)
\* the removed entry kept whatever its variant
keep_any(opt) == opt

\* .filter(|v| v.is_dict()) on the removed entry
keep_dict(opt) == IF opt.some /\ is_dict(opt.val) THEN opt ELSE None

\* the drained map returned in place of the merged one
merge_drained(new, existing) == Dict(HashMap_new)

\* a merge that descends into entries that are Dicts on both sides
RECURSIVE merge_deep(_, _)
merge_deep(new, existing) ==
    Dict([k \in DOMAIN existing \cup DOMAIN new |->
            IF k \notin DOMAIN new THEN existing[k]
            ELSE IF k \in DOMAIN existing /\ is_dict(new[k]) /\ is_dict(existing[k])
                 THEN merge_deep(new[k].m, existing[k].m)
                 ELSE new[k]])

\* for (k, v) in new.drain() { existing.insert(k, v); }  Value::Dict(existing)
merge_dicts(new, existing) ==
    Dict([k \in DOMAIN existing \cup DOMAIN new |->
            IF k \in DOMAIN new THEN new[k] ELSE existing[k]])

\* an existing Dict that survives a value that is no Dict
final_entry_keep(value, old_value) ==
    IF old_value.some /\ is_dict(old_value.val)
    THEN IF is_dict(value) THEN merge_dicts(value.m, old_value.val.m)
         ELSE old_value.val
    ELSE value

\* the match of the final path segment
final_entry(value, old_value) ==
    IF is_dict(value) /\ old_value.some /\ is_dict(old_value.val)
    THEN merge_dicts(value.m, old_value.val.m)
    ELSE value

\* a fresh Dict whatever was kept aside
descend_fresh(old_value) == Dict(HashMap_new)

\* old_value.unwrap_or_else(|| Value::Dict(HashMap::new()))
descend_node(old_value) ==
    IF old_value.some THEN old_value.val ELSE Dict(HashMap_new)

RECURSIVE insert(_, _, _)
insert(self, keys, value) ==
    IF keys = <<>> THEN Panic
    ELSE IF ~as_dict_mut(self).some THEN Panic
    ELSE LET key == Head(keys)
             rest == Tail(keys)
             map == as_dict_mut(self).val
             old_value == keep_dict(map_removed(map, key))
             entry == IF rest = <<>>
                      THEN final_entry(value, old_value)
                      ELSE insert(descend_node(old_value), rest, value)
         IN  IF entry = Panic THEN Panic
             ELSE Dict(map_insert(map_remove(map, key), key, entry))

(***************************************************************************)
(* Value::get and FromValue                                                *)
(***************************************************************************)
\* FromValue::from_no_value, the default
from_no_value_default == Err("No such key")

\* impl FromValue for String
String_from_value(value) ==
    IF as_str(value).some THEN Ok(as_str(value).val)
    ELSE Err("Value is not a string")

\* the inner failure handed on in place of Ok(None)
Option_from_value_strict(value) ==
    IF String_from_value(value).ok THEN Ok(Some(String_from_value(value).val))
    ELSE String_from_value(value)

\* impl FromValue for Option<String>
Option_from_value(value) ==
    IF String_from_value(value).ok THEN Ok(Some(String_from_value(value).val))
    ELSE Ok(None)
Option_from_no_value == Ok(None)

\* impl FromValue for HashMap<String, String>
HashMap_from_value(value) ==
    IF ~as_dict(value).some THEN Err("Couldn't convert")
    ELSE LET d == as_dict(value).val
         IN  IF \E k \in DOMAIN d : ~String_from_value(d[k]).ok
             THEN Err("Value is not a string")
             ELSE Ok([k \in DOMAIN d |-> String_from_value(d[k]).val])

T_from_value(T, value) ==
    CASE T = "String" -> String_from_value(value)
      [] T = "Option<String>" -> Option_from_value(value)
      [] T = "HashMap<String,String>" -> HashMap_from_value(value)

T_from_no_value(T) ==
    CASE T = "String" -> from_no_value_default
      [] T = "Option<String>" -> Option_from_no_value
      [] T = "HashMap<String,String>" -> from_no_value_default

\* Value::get::<T>
get(self, key, T) ==
    IF ~as_dict(self).some THEN Err("Value is not a dict")
    ELSE IF map_get(as_dict(self).val, key).some
         THEN T_from_value(T, map_get(as_dict(self).val, key).val)
         ELSE T_from_no_value(T)

Types == {"String", "Option<String>", "HashMap<String,String>"}

\* Value::get_value
get_value(self, key) ==
    IF ~as_dict(self).some THEN Err("Not a dict")
    ELSE IF map_get(as_dict(self).val, key).some
         THEN Ok(map_get(as_dict(self).val, key).val)
         ELSE Err("No such key")

\* get_value along a key path
RECURSIVE at(_, _)
at(self, keys) ==
    IF keys = <<>> THEN Ok(self)
    ELSE IF get_value(self, Head(keys)).ok
         THEN at(get_value(self, Head(keys)).val, Tail(keys))
         ELSE get_value(self, Head(keys))

(***************************************************************************)
(* Serializer                                                              *)
(***************************************************************************)
\* the least key of a non-empty set, in String order
min_key(S) == CHOOSE k \in S : \A j \in S : j = k \/ str_lt(k, j)

\* the greatest key of a non-empty set, in String order
max_key(S) == CHOOSE k \in S : \A j \in S : j = k \/ str_lt(j, k)

\* the keys in descending order
RECURSIVE unsorted_keys(_)
unsorted_keys(S) ==
    IF S = {} THEN <<>>
    ELSE <<max_key(S)>> \o unsorted_keys(S \ {max_key(S)})

\* BTreeMap::from_iter(m.iter()).iter(): the keys in ascending order
RECURSIVE btree_keys(_)
btree_keys(S) ==
    IF S = {} THEN <<>>
    ELSE <<min_key(S)>> \o btree_keys(S \ {min_key(S)})

quoted(s) == <<"\"">> \o s \o <<"\"">>

RECURSIVE as_noc_string(_)
as_noc_string(self) ==
    CASE self.t = "String" -> quoted(self.s)
      [] self.t = "List" ->
            str_join(
                [i \in 1..Len(self.v) |->
                    CASE self.v[i].t = "Dict" ->
                            <<"{">> \o as_noc_string(self.v[i]) \o <<"}">>
                      [] self.v[i].t = "List" ->
                            <<"[">> \o as_noc_string(self.v[i]) \o <<"]">>
                      [] self.v[i].t = "String" -> as_noc_string(self.v[i])],
                <<",">>)
      [] self.t = "Dict" ->
            LET ks == btree_keys(DOMAIN self.m)
            IN  str_join(
                    [i \in 1..Len(ks) |->
                        LET k == ks[i]
                            v == self.m[k]
                        IN  CASE v.t = "Dict" ->
                                    quoted(k) \o <<" ", "{">>
                                        \o as_noc_string(v) \o <<"}">>
                              [] v.t = "List" ->
                                    quoted(k) \o <<" ", "[">>
                                        \o as_noc_string(v) \o <<"]">>
                              [] v.t = "String" ->
                                    quoted(k) \o <<" ">> \o as_noc_string(v)],
                    <<",">>)

RECURSIVE as_s_indent(_, _)
as_s_indent(self, indent) ==
    LET tabs == str_repeat("\t", indent)
    IN  CASE self.t = "String" -> quoted(self.s)
          [] self.t = "List" ->
                str_join(
                    [i \in 1..Len(self.v) |->
                        LET v == self.v[i]
                            s == as_s_indent(v, indent + 1)
                        IN  CASE v.t = "Dict" ->
                                    tabs \o <<"{", "\n">> \o s \o <<"\n">>
                                        \o tabs \o <<"}">>
                              [] v.t = "List" ->
                                    tabs \o <<"[", "\n">> \o s \o <<"\n">>
                                        \o tabs \o <<"]">>
                              [] v.t = "String" -> tabs \o s],
                    <<"\n">>)
          [] self.t = "Dict" ->
                LET ks == btree_keys(DOMAIN self.m)
                IN  str_join(
                        [i \in 1..Len(ks) |->
                            LET k == ks[i]
                                v == self.m[k]
                                s == as_s_indent(v, indent + 1)
                            IN  CASE v.t = "Dict" ->
                                        tabs \o quoted(k) \o <<" ", "{", "\n">>
                                            \o s \o <<"\n">> \o tabs \o <<"}">>
                                  [] v.t = "List" ->
                                        tabs \o quoted(k) \o <<" ", "[", "\n">>
                                            \o s \o <<"\n">> \o tabs \o <<"]">>
                                  [] v.t = "String" ->
                                        tabs \o quoted(k) \o <<" ">> \o s],
                        <<"\n">>)

as_noc_string_pretty(self) == as_s_indent(self, 0)

(***************************************************************************)
(* The tree under insert and get                                           *)
(***************************************************************************)
KeyA == <<"a">>
KeyB == <<"b">>
Keys == {KeyA, KeyB}

RECURSIVE PathsUpTo(_)
PathsUpTo(n) ==
    IF n = 0 THEN {<<>>}
    ELSE PathsUpTo(n - 1)
            \cup {<<k>> \o p : k \in Keys, p \in {q \in PathsUpTo(n - 1) : Len(q) = n - 1}}

\* the non-empty key paths
Paths == PathsUpTo(MaxPathLen) \ {<<>>}

StrX == String(<<"x">>)
ListX == List(<<StrX>>)

\* the values handed to insert: a Scalar, a List, a flat Dict, a nested Dict
InsertValues ==
    {StrX, ListX,
     Dict([k \in {KeyA} |-> ListX]),
     Dict([k \in {KeyA} |-> Dict([j \in {KeyB} |-> StrX])])}

\* the number of Dict entries of a tree, at all levels
RECURSIVE NodeCount(_)
RECURSIVE SumCounts(_, _)
SumCounts(m, S) ==
    IF S = {} THEN 0
    ELSE LET k == CHOOSE k \in S : TRUE
         IN  1 + NodeCount(m[k]) + SumCounts(m, S \ {k})
NodeCount(v) == IF v.t = "Dict" THEN SumCounts(v.m, DOMAIN v.m) ELSE 0

EmptyTree == Dict(HashMap_new)

Init ==
    /\ root = EmptyTree
    /\ alt = EmptyTree
    /\ pending = <<HashMap_new, HashMap_new>>
    /\ last = [op |-> "none"]

\* root.insert(keys, value); a panic ends the program.  last keeps the call
\* and the tree it was made on
Insert(keys, value) ==
    /\ last.op # "panic"
    /\ \E new \in {insert(root, keys, value)} :
          IF new = Panic
          THEN /\ last' = [op |-> "panic", old |-> root, keys |-> keys, value |-> value]
               /\ root' = root
          ELSE /\ NodeCount(new) <= MaxNodes
               /\ root' = new
               /\ last' = [op |-> "insert", old |-> root, keys |-> keys, value |-> value]
    /\ UNCHANGED <<alt, pending>>

Next ==
    \E keys \in Paths, value \in InsertValues : Insert(keys, value)

Spec == Init /\ [][Next]_vars

(***************************************************************************)
(* Properties of insert                                                    *)
(***************************************************************************)
InsertDone == last.op = "insert"

\* the entry of tree at the key path, or None
entry_at(tree, keys) == IF at(tree, keys).ok THEN Some(at(tree, keys).val) ELSE None

\* C1: insert(root, [k], v) with v a Scalar or a List leaves the entry at k
\* equal to v, whatever was stored at k before, and leaves every other
\* top-level entry of root as it was.
C1Theorem ==
    (InsertDone /\ Len(last.keys) = 1 /\ ~is_dict(last.value)) =>
        LET k == last.keys[1]
        IN  /\ is_dict(root)
            /\ k \in DOMAIN root.m
            /\ root.m[k] = last.value
            /\ DOMAIN root.m \ {k} = DOMAIN last.old.m \ {k}
            /\ \A j \in DOMAIN root.m \ {k} : root.m[j] = last.old.m[j]

\* a Scalar was written over a Dict that held a Dict, beside another entry
C1Witness ==
    /\ InsertDone /\ Len(last.keys) = 1 /\ is_string(last.value)
    /\ LET k == last.keys[1]
       IN  /\ k \in DOMAIN last.old.m
           /\ is_dict(last.old.m[k])
           /\ \E j \in DOMAIN last.old.m[k].m : is_dict(last.old.m[k].m[j])
           /\ DOMAIN last.old.m \ {k} # {}
           /\ root.m[k] = last.value

\* C2: when a Dict N is stored at the final segment and the entry already
\* there is a Dict E, the entry afterwards is a Dict over keys(E) \cup keys(N)
\* in which every key of N has N's value and every other key has E's value.
C2Theorem ==
    (/\ InsertDone /\ is_dict(last.value)
     /\ entry_at(last.old, last.keys).some
     /\ is_dict(entry_at(last.old, last.keys).val)) =>
        LET N == last.value.m
            E == entry_at(last.old, last.keys).val.m
            got == entry_at(root, last.keys)
        IN  /\ got.some /\ is_dict(got.val)
            /\ DOMAIN got.val.m = DOMAIN E \cup DOMAIN N
            /\ \A k \in DOMAIN N : got.val.m[k] = N[k]
            /\ \A k \in DOMAIN E \ DOMAIN N : got.val.m[k] = E[k]

\* N and E hold different Dicts under one key, and E has a key of its own
C2Witness ==
    /\ InsertDone /\ is_dict(last.value)
    /\ entry_at(last.old, last.keys).some
    /\ is_dict(entry_at(last.old, last.keys).val)
    /\ LET N == last.value.m
           E == entry_at(last.old, last.keys).val.m
       IN  /\ DOMAIN E \ DOMAIN N # {}
           /\ \E k \in DOMAIN N \cap DOMAIN E :
                 /\ is_dict(N[k]) /\ is_dict(E[k])
                 /\ DOMAIN E[k].m \ DOMAIN N[k].m # {}
                 /\ entry_at(root, last.keys).val.m[k] = N[k]

\* C3: on a path of two or more keys, at every non-final segment an existing
\* Dict is kept, all its entries but the next key unchanged, and a Scalar, a
\* List or no entry is replaced by a Dict that holds the next key alone.
C3Theorem ==
    (InsertDone /\ Len(last.keys) >= 2) =>
        \A i \in 1..(Len(last.keys) - 1) :
            LET prefix == SubSeq(last.keys, 1, i)
                next == last.keys[i + 1]
                before == entry_at(last.old, prefix)
                after == entry_at(root, prefix)
            IN  /\ after.some /\ is_dict(after.val)
                /\ next \in DOMAIN after.val.m
                /\ IF before.some /\ is_dict(before.val)
                   THEN /\ DOMAIN after.val.m \ {next} = DOMAIN before.val.m \ {next}
                        /\ \A j \in DOMAIN before.val.m \ {next} :
                              after.val.m[j] = before.val.m[j]
                   ELSE DOMAIN after.val.m = {next}

\* a write at a.b.d beside an a.b.c that stays
C3Witness ==
    /\ InsertDone /\ Len(last.keys) = 3
    /\ LET prefix == SubSeq(last.keys, 1, 2)
           before == entry_at(last.old, prefix)
       IN  /\ before.some /\ is_dict(before.val)
           /\ \E j \in DOMAIN before.val.m \ {last.keys[3]} :
                 entry_at(root, prefix).val.m[j] = before.val.m[j]
           /\ last.keys[3] \notin DOMAIN before.val.m

C10Theorem ==
    InsertDone => insert(root, last.keys, last.value) = root

\* a Dict was inserted where no entry was, and inserting it again merges it
\* with itself
C10Witness ==
    /\ InsertDone /\ is_dict(last.value) /\ last.value.m # HashMap_new
    /\ ~entry_at(last.old, last.keys).some
    /\ insert(root, last.keys, last.value) = root

(***************************************************************************)
(* Typed extraction from a parsed container                                *)
(***************************************************************************)
KeyC == <<"c">>
GetKeys == Keys \cup {KeyC}

\* what a Dict entry of a parsed document may be
EntryValues ==
    {StrX, ListX, List(<<>>), Dict(HashMap_new),
     Dict([k \in {KeyA} |-> StrX]), Dict([k \in {KeyA} |-> ListX])}

\* the containers get is called on: every Dict over Keys, and two values
\* that are no Dict
GetContainers ==
    {Dict(m) : m \in UNION {[D -> EntryValues] : D \in SUBSET Keys}}
        \cup {StrX, ListX}

InitGet ==
    /\ root \in GetContainers
    /\ alt = EmptyTree
    /\ pending = <<HashMap_new, HashMap_new>>
    /\ last = [op |-> "none"]

\* root.get::<T>(key), for each output type T
Get(key) ==
    /\ last' = [op |-> "get", key |-> key,
                res |-> [T \in Types |-> get(root, key, T)]]
    /\ UNCHANGED <<root, alt, pending>>

NextGet == \E key \in GetKeys : Get(key)

SpecGet == InitGet /\ [][NextGet]_vars

\* C5: on a Dict container get::<Option<String>> always succeeds, with the
\* text for a Scalar entry and with None for a missing key, a Dict or a
\* List; get::<String> succeeds with the text for a Scalar entry only.
C5Theorem ==
    (last.op = "get" /\ is_dict(root)) =>
        LET opt == last.res["Option<String>"]
            str == last.res["String"]
            e == map_get(root.m, last.key)
        IN  /\ opt.ok
            /\ IF e.some /\ is_string(e.val)
               THEN opt.val = Some(e.val.s) /\ str = Ok(e.val.s)
               ELSE opt.val = None /\ ~str.ok

\* the entry is a Dict: Option<String> gives None, String fails
C5Witness ==
    /\ last.op = "get" /\ is_dict(root)
    /\ last.key \in DOMAIN root.m /\ is_dict(root.m[last.key])
    /\ last.res["Option<String>"] = Ok(None)
    /\ last.res["String"] = Err("Value is not a string")

(***************************************************************************)
(* Two trees built from the same entries in two orders                     *)
(***************************************************************************)
KeyAB == <<"a", "b">>
OrderKeys == {KeyA, KeyAB, KeyB}

FlatDict == Dict([k \in {KeyA, KeyB} |-> StrX])

\* the values of the entries: a Scalar, a List that holds a Dict, and a Dict
\* that holds a Dict
OrderValues ==
    {StrX,
     List(<<StrX, FlatDict>>),
     Dict([k \in OrderKeys |-> IF k = KeyAB THEN FlatDict ELSE StrX])}

\* the sets of entries with distinct keys
EntrySets == UNION {[D -> OrderValues] : D \in SUBSET OrderKeys}

InitOrder ==
    /\ root = EmptyTree
    /\ alt = EmptyTree
    /\ \E E \in EntrySets : pending = <<E, E>>
    /\ last = [op |-> "order", first |-> <<>>, second |-> <<>>]

\* the entries of E but the one at key k
Without(E, k) == [j \in DOMAIN E \ {k} |-> E[j]]

\* root.insert(vec![k], pending[1][k])
InsertFirst(k) ==
    /\ k \in DOMAIN pending[1]
    /\ root' = insert(root, <<k>>, pending[1][k])
    /\ pending' = <<Without(pending[1], k), pending[2]>>
    /\ last' = [last EXCEPT !.first = Append(@, k)]
    /\ UNCHANGED alt

\* alt.insert(vec![k], pending[2][k])
InsertSecond(k) ==
    /\ k \in DOMAIN pending[2]
    /\ alt' = insert(alt, <<k>>, pending[2][k])
    /\ pending' = <<pending[1], Without(pending[2], k)>>
    /\ last' = [last EXCEPT !.second = Append(@, k)]
    /\ UNCHANGED root

NextOrder ==
    \/ \E k \in OrderKeys : InsertFirst(k)
    \/ \E k \in OrderKeys : InsertSecond(k)

SpecOrder == InitOrder /\ [][NextOrder]_vars

\* the index of the first double quote of text at or after i, or 0
RECURSIVE next_quote(_, _)
next_quote(text, i) ==
    IF i > Len(text) THEN 0
    ELSE IF text[i] = "\"" THEN i
    ELSE next_quote(text, i + 1)

\* the keys of the outermost entries of a compact text, as they appear:
\* a quoted text that starts an item outside all brackets is a key
RECURSIVE scan_compact(_, _, _, _)
scan_compact(text, i, depth, start) ==
    IF i > Len(text) THEN <<>>
    ELSE IF text[i] = "\""
         THEN LET j == next_quote(text, i + 1)
              IN  IF depth = 0 /\ start
                  THEN <<SubSeq(text, i + 1, j - 1)>>
                           \o scan_compact(text, j + 1, depth, FALSE)
                  ELSE scan_compact(text, j + 1, depth, start)
    ELSE IF text[i] \in {"{", "["} THEN scan_compact(text, i + 1, depth + 1, start)
    ELSE IF text[i] \in {"}", "]"} THEN scan_compact(text, i + 1, depth - 1, start)
    ELSE IF text[i] = "," /\ depth = 0 THEN scan_compact(text, i + 1, depth, TRUE)
    ELSE scan_compact(text, i + 1, depth, start)

keys_of_compact(text) == scan_compact(text, 1, 0, TRUE)

\* the keys of the outermost entries of an indented text, as they appear:
\* a line with no tab that starts with a quoted text starts an entry
RECURSIVE scan_indented(_, _, _)
scan_indented(text, i, start) ==
    IF i > Len(text) THEN <<>>
    ELSE IF start /\ text[i] = "\""
         THEN LET j == next_quote(text, i + 1)
              IN  <<SubSeq(text, i + 1, j - 1)>> \o scan_indented(text, j + 1, FALSE)
    ELSE scan_indented(text, i + 1, text[i] = "\n")

keys_of_indented(text) == scan_indented(text, 1, TRUE)

\* a value and the values below it
RECURSIVE Nodes(_)
Nodes(v) ==
    {v} \cup
        CASE v.t = "Dict" -> UNION {Nodes(v.m[k]) : k \in DOMAIN v.m}
          [] v.t = "List" -> UNION {Nodes(v.v[i]) : i \in 1..Len(v.v)}
          [] v.t = "String" -> {}

DictNodes(v) == {d \in Nodes(v) : is_dict(d)}

Ascending(ks) == \A i \in 1..(Len(ks) - 1) : str_lt(ks[i], ks[i + 1])

\* C4: entries with distinct keys inserted in two orders give one compact
\* text; in it the entries of every Dict, at every level, stand in strictly
\* ascending key order, and the indented text lists the same keys in the
\* same order.
C4Theorem ==
    /\ DOMAIN pending[1] = DOMAIN pending[2] =>
            /\ as_noc_string(root) = as_noc_string(alt)
            /\ as_noc_string_pretty(root) = as_noc_string_pretty(alt)
    /\ \A d \in DictNodes(root) :
          LET ks == keys_of_compact(as_noc_string(d))
          IN  /\ Ascending(ks)
              /\ {ks[i] : i \in 1..Len(ks)} = DOMAIN d.m
              /\ keys_of_indented(as_noc_string_pretty(d)) = ks

\* three entries, one of them a Dict that holds a Dict, inserted in two
\* different orders
C4Witness ==
    /\ pending = <<HashMap_new, HashMap_new>>
    /\ Len(last.first) = 3
    /\ last.first # last.second
    /\ \E k \in DOMAIN root.m :
          is_dict(root.m[k]) /\ \E j \in DOMAIN root.m[k].m : is_dict(root.m[k].m[j])
    /\ keys_of_compact(as_noc_string(root)) = <<KeyA, KeyAB, KeyB>>
    /\ as_noc_string(root) = as_noc_string(alt)

(***************************************************************************)
(* Numbers: str::parse and to_string                                       *)
(***************************************************************************)
RECURSIVE Pow(_, _)
Pow(b, n) == IF n = 0 THEN 1 ELSE b * Pow(b, n - 1)

I64Max == Pow(2, IntBits - 1) - 1
I64Min == 0 - Pow(2, IntBits - 1)
\* i64::from(u32::MAX): u32 has half the width of i64
U32Max == Pow(2, IntBits \div 2) - 1

Digits == <<"0", "1", "2", "3", "4", "5", "6", "7", "8", "9">>
IsDigit(c) == \E d \in 1..10 : Digits[d] = c
DigitVal(c) == (CHOOSE d \in 1..10 : Digits[d] = c) - 1
AllDigits(s) == \A i \in 1..Len(s) : IsDigit(s[i])

Abs(n) == IF n < 0 THEN 0 - n ELSE n

\* the value of a digit text, no greater than cap + 1
RECURSIVE digits_value(_, _, _)
digits_value(s, acc, cap) ==
    IF s = <<>> THEN acc
    ELSE IF acc * 10 + DigitVal(Head(s)) > cap THEN cap + 1
    ELSE digits_value(Tail(s), acc * 10 + DigitVal(Head(s)), cap)

HasSign(s) == s # <<>> /\ s[1] \in {"+", "-"}
IsNeg(s) == s # <<>> /\ s[1] = "-"
Unsigned(s) == IF HasSign(s) THEN Tail(s) ELSE s

\* <i64 as FromStr>::from_str: an optional sign, then one digit or more; a
\* value out of range is an error
parse_i64(s) ==
    LET body == Unsigned(s)
        mag == digits_value(body, 0, 0 - I64Min)
    IN  IF body = <<>> \/ ~AllDigits(body) THEN Err("InvalidDigit")
        ELSE IF IsNeg(s)
             THEN IF mag > 0 - I64Min THEN Err("NegOverflow") ELSE Ok(0 - mag)
             ELSE IF mag > I64Max THEN Err("PosOverflow") ELSE Ok(mag)

\* the model's f64: a sign and a magnitude counted in units of 1/FScale,
\* or an infinity, or NaN.  Unmodelled stands for a value the fixed-point
\* magnitude cannot hold exactly
FScale == Pow(10, FracDigits)
FCapMag == Pow(2, 2 * IntBits - 2) * FScale
Unmodelled == [k |-> "unmodelled"]
Num(neg, mag) == [k |-> "num", neg |-> neg, mag |-> mag]
Inf(neg) == [k |-> "inf", neg |-> neg]
NaN == [k |-> "nan"]

\* the index of the first "." of s, or 0
RECURSIVE dot_index(_, _)
dot_index(s, i) ==
    IF i > Len(s) THEN 0 ELSE IF s[i] = "." THEN i ELSE dot_index(s, i + 1)

\* the fraction digits as a count of 1/FScale, when they fit exactly
RECURSIVE frac_value(_, _)
frac_value(s, n) ==
    IF n = 0 THEN 0
    ELSE (IF s = <<>> THEN 0 ELSE DigitVal(Head(s)) * Pow(10, n - 1))
            + frac_value(IF s = <<>> THEN s ELSE Tail(s), n - 1)

\* <f64 as FromStr>::from_str over signs, digits and the point: an optional
\* sign, then digits with at most one point and one digit at least
parse_f64(s) ==
    LET body == Unsigned(s)
        d == dot_index(body, 1)
        int == IF d = 0 THEN body ELSE SubSeq(body, 1, d - 1)
        frac == IF d = 0 THEN <<>> ELSE SubSeq(body, d + 1, Len(body))
    IN  IF ~AllDigits(int) \/ ~AllDigits(frac) \/ Len(int) + Len(frac) = 0
        THEN Err("invalid float literal")
        ELSE IF \/ digits_value(int, 0, FCapMag \div FScale) > FCapMag \div FScale
                \/ \E i \in (FracDigits + 1)..Len(frac) : frac[i] # "0"
             THEN Ok(Unmodelled)
             ELSE Ok(Num(IsNeg(s),
                         digits_value(int, 0, FCapMag \div FScale) * FScale
                            + frac_value(frac, FracDigits)))

\* T::from_str for the two numeric types convert is used with
parse(T, s) ==
    CASE T = "i64" -> parse_i64(s)
      [] T = "f64" -> parse_f64(s)

\* the decimal digits of a natural number
RECURSIVE nat_text(_)
nat_text(n) ==
    IF n < 10 THEN <<Digits[n + 1]>>
    ELSE nat_text(n \div 10) \o <<Digits[(n % 10) + 1]>>

\* i64::to_string
i64_to_string(n) == IF n < 0 THEN <<"-">> \o nat_text(0 - n) ELSE nat_text(n)

\* the fraction digits, zeros at the end dropped
RECURSIVE frac_text(_, _)
frac_text(f, n) ==
    IF f = 0 THEN <<>>
    ELSE <<Digits[(f \div Pow(10, n - 1)) + 1]>> \o frac_text(f % Pow(10, n - 1), n - 1)

\* f64::to_string: the texts a toolchain can print.  A negative zero prints
\* as "-0" or as "0", by the version of the standard library
f64_to_string(f) ==
    CASE f.k = "nan" -> {<<"N", "a", "N">>}
      [] f.k = "inf" -> {(IF f.neg THEN <<"-">> ELSE <<>>) \o <<"i", "n", "f">>}
      [] f.k = "num" ->
            LET text == nat_text(f.mag \div FScale)
                            \o (IF f.mag % FScale = 0 THEN <<>>
                                ELSE <<".">> \o frac_text(f.mag % FScale, FracDigits))
            IN  IF ~f.neg THEN {text}
                ELSE IF f.mag = 0 THEN {<<"-">> \o text, text}
                ELSE {<<"-">> \o text}

(***************************************************************************)
(* Arithmetic                                                              *)
(***************************************************************************)
Signed(f) == IF f.neg THEN 0 - f.mag ELSE f.mag

\* f64 + f64
fadd(a, b) ==
    IF a = Unmodelled \/ b = Unmodelled THEN Unmodelled
    ELSE LET sum == Signed(a) + Signed(b)
         IN  IF Abs(sum) > FCapMag THEN Unmodelled
             ELSE IF sum = 0 THEN Num(a.neg /\ b.neg /\ a.mag = 0, 0)
             ELSE Num(sum < 0, Abs(sum))

\* f64 - f64
fsub(a, b) ==
    IF a = Unmodelled \/ b = Unmodelled THEN Unmodelled
    ELSE fadd(a, Num(~b.neg, b.mag))

\* f64 * f64
fmul(a, b) ==
    IF a = Unmodelled \/ b = Unmodelled THEN Unmodelled
    ELSE IF a.mag = 0 \/ b.mag = 0 THEN Num(a.neg # b.neg, 0)
    ELSE IF a.mag > (FCapMag * FScale) \div b.mag THEN Unmodelled
    ELSE IF (a.mag * b.mag) % FScale # 0 THEN Unmodelled
    ELSE Num(a.neg # b.neg, (a.mag * b.mag) \div FScale)

\* f64 / f64
fdiv(a, b) ==
    IF a = Unmodelled \/ b = Unmodelled THEN Unmodelled
    ELSE IF b.mag = 0 THEN (IF a.mag = 0 THEN NaN ELSE Inf(a.neg # b.neg))
    ELSE IF (a.mag * FScale) % b.mag # 0 THEN Unmodelled
    ELSE Num(a.neg # b.neg, (a.mag * FScale) \div b.mag)

\* a multiplied by itself n times over
RECURSIVE fpow_nat(_, _)
fpow_nat(a, n) ==
    IF n = 0 THEN Num(FALSE, FScale)
    ELSE IF fpow_nat(a, n - 1) = Unmodelled THEN Unmodelled
    ELSE fmul(a, fpow_nat(a, n - 1))

\* f64::powf, for an exponent that is a whole number
powf(a, b) ==
    IF a = Unmodelled \/ b = Unmodelled THEN Unmodelled
    ELSE IF b.mag % FScale # 0 \/ b.mag \div FScale > 2 * IntBits THEN Unmodelled
    ELSE IF b.neg /\ b.mag # 0
         THEN fdiv(Num(FALSE, FScale), fpow_nat(a, b.mag \div FScale))
         ELSE fpow_nat(a, b.mag \div FScale)

\* the two's complement value a release build keeps of an i64 result
wrap(n) == ((n - I64Min) % Pow(2, IntBits)) + I64Min

InRange(n) == I64Min <= n /\ n <= I64Max

\* i64 / i64 truncates toward zero
tdiv(a, b) == (IF (a < 0) # (b < 0) THEN 0 - 1 ELSE 1) * (Abs(a) \div Abs(b))
\* i64 % i64 has the sign of the dividend
trem(a, b) == a - b * tdiv(a, b)

\* i64::pow as a release build computes it, wrapping at every product
RECURSIVE pow_wrapping(_, _)
pow_wrapping(base, exp) ==
    IF exp = 0 THEN 1 ELSE wrap(base * pow_wrapping(base, exp - 1))

\* whether the exact power is in the range of i64
RECURSIVE pow_mag(_, _)
pow_mag(base, exp) ==
    IF exp = 0 THEN 1
    ELSE IF Abs(base) * pow_mag(base, exp - 1) > 0 - I64Min THEN 1 - I64Min
    ELSE Abs(base) * pow_mag(base, exp - 1)

pow_fits(base, exp) ==
    IF base < 0 /\ exp % 2 = 1 THEN pow_mag(base, exp) <= 0 - I64Min
    ELSE pow_mag(base, exp) <= I64Max

(***************************************************************************)
(* The functions                                                           *)
(***************************************************************************)
\* the ways a call ends: a Scalar, an error with its reason, or a panic
OkText(text) == [kind |-> "Ok", value |-> String(text)]
Error(reason) == [kind |-> "Err", reason |-> reason]
Panicked == [kind |-> "Panic"]

\* an i64 operation on parsed arguments, then to_string: an overflow panics
\* in a build with overflow checks and wraps in a build without
i64_result(exact) ==
    IF InRange(exact) THEN {OkText(i64_to_string(exact))}
    ELSE {Panicked, OkText(i64_to_string(wrap(exact)))}

\* an f64 operation, then to_string
f64_result(f) ==
    IF f = Unmodelled THEN {Unmodelled}
    ELSE {OkText(t) : t \in f64_to_string(f)}

\* convert with no look at a third argument
convert_first_two(T, args) ==
    IF Len(args) < 2 THEN Err("()")
    ELSE IF ~as_str(args[1]).some \/ ~as_str(args[2]).some THEN Err("()")
    ELSE IF ~parse(T, as_str(args[1]).val).ok THEN Err("()")
    ELSE IF ~parse(T, as_str(args[2]).val).ok THEN Err("()")
    ELSE Ok(<<parse(T, as_str(args[1]).val).val, parse(T, as_str(args[2]).val).val>>)

\* convert::<T>
convert(T, args) ==
    IF Len(args) >= 3 THEN Err("()")
    ELSE IF Len(args) < 2 THEN Err("()")
    ELSE IF ~as_str(args[1]).some \/ ~as_str(args[2]).some THEN Err("()")
    ELSE IF ~parse(T, as_str(args[1]).val).ok THEN Err("()")
    ELSE IF ~parse(T, as_str(args[2]).val).ok THEN Err("()")
    ELSE Ok(<<parse(T, as_str(args[1]).val).val, parse(T, as_str(args[2]).val).val>>)

\* an addition that goes on to f64 when the i64 sum overflows
add_checked(args) ==
    IF convert("i64", args).ok
          /\ InRange(convert("i64", args).val[1] + convert("i64", args).val[2])
    THEN i64_result(convert("i64", args).val[1] + convert("i64", args).val[2])
    ELSE IF convert("f64", args).ok
         THEN f64_result(fadd(convert("f64", args).val[1], convert("f64", args).val[2]))
         ELSE {Error("Addition requires two numeric arguments")}

add(args) ==
    IF convert("i64", args).ok
    THEN i64_result(convert("i64", args).val[1] + convert("i64", args).val[2])
    ELSE IF convert("f64", args).ok
         THEN f64_result(fadd(convert("f64", args).val[1], convert("f64", args).val[2]))
         ELSE {Error("Addition requires two numeric arguments")}

subtract(args) ==
    IF convert("i64", args).ok
    THEN i64_result(convert("i64", args).val[1] - convert("i64", args).val[2])
    ELSE IF convert("f64", args).ok
         THEN f64_result(fsub(convert("f64", args).val[1], convert("f64", args).val[2]))
         ELSE {Error("Subtraction requires two numeric arguments")}

multiply(args) ==
    IF convert("i64", args).ok
    THEN i64_result(convert("i64", args).val[1] * convert("i64", args).val[2])
    ELSE IF convert("f64", args).ok
         THEN f64_result(fmul(convert("f64", args).val[1], convert("f64", args).val[2]))
         ELSE {Error("Multiplication requires two numeric arguments")}

divide(args) ==
    IF convert("f64", args).ok
    THEN f64_result(fdiv(convert("f64", args).val[1], convert("f64", args).val[2]))
    ELSE {Error("Division requires two numeric arguments")}

power(args) ==
    IF /\ convert("i64", args).ok
       /\ convert("i64", args).val[2] > 0
       /\ convert("i64", args).val[2] <= U32Max
    THEN LET lhs == convert("i64", args).val[1]
             rhs == convert("i64", args).val[2]
         IN  IF pow_fits(lhs, rhs) THEN {OkText(i64_to_string(pow_wrapping(lhs, rhs)))}
             ELSE {Panicked, OkText(i64_to_string(pow_wrapping(lhs, rhs)))}
    ELSE IF convert("f64", args).ok
         THEN f64_result(powf(convert("f64", args).val[1], convert("f64", args).val[2]))
         ELSE {Error("Power requires two numeric arguments")}

\* a division by zero, and i64::MIN by -1, panic in every build
intdiv(args) ==
    IF convert("i64", args).ok
    THEN LET lhs == convert("i64", args).val[1]
             rhs == convert("i64", args).val[2]
         IN  IF rhs = 0 \/ (lhs = I64Min /\ rhs = 0 - 1) THEN {Panicked}
             ELSE {OkText(i64_to_string(tdiv(lhs, rhs)))}
    ELSE {Error("Integer division requires two integer arguments")}

modulus(args) ==
    IF convert("i64", args).ok
    THEN LET lhs == convert("i64", args).val[1]
             rhs == convert("i64", args).val[2]
         IN  IF rhs = 0 \/ (lhs = I64Min /\ rhs = 0 - 1) THEN {Panicked}
             ELSE {OkText(i64_to_string(trem(lhs, rhs)))}
    ELSE {Error("Modulus requires two integer arguments")}

\* the texts of the arguments, in order
texts_of(args) == [i \in 1..Len(args) |-> as_str(args[i]).val]

AllStrings(args) == \A i \in 1..Len(args) : as_str(args[i]).some

concat(args) ==
    IF ~AllStrings(args) THEN {Error("Concat only takes string arguments")}
    ELSE {OkText(str_join(texts_of(args), <<>>))}

\* a join that wants an item beside the separator
join_strict(args) ==
    IF ~AllStrings(args) THEN {Error("Join only takes string arguments")}
    ELSE IF Len(args) < 2 THEN {Error("Not enough arguments to join")}
    ELSE {OkText(str_join(Tail(texts_of(args)), texts_of(args)[1]))}

join(args) ==
    IF ~AllStrings(args) THEN {Error("Join only takes string arguments")}
    ELSE IF texts_of(args) = <<>> THEN {Error("Not enough arguments to join")}
    ELSE {OkText(str_join(Tail(texts_of(args)), texts_of(args)[1]))}

\* apply: the outcomes of the named function on the arguments
apply(name, args) ==
    CASE name = "add" -> add(args)
      [] name = "subtract" -> subtract(args)
      [] name = "divide" -> divide(args)
      [] name = "multiply" -> multiply(args)
      [] name = "power" -> power(args)
      [] name = "intdiv" -> intdiv(args)
      [] name = "modulus" -> modulus(args)
      [] name = "concat" -> concat(args)
      [] name = "join" -> join(args)
      [] OTHER -> {Error("No such function")}

(***************************************************************************)
(* Calls of the functions                                                  *)
(***************************************************************************)
Names ==
    {"add", "subtract", "divide", "multiply", "power", "intdiv", "modulus",
     "concat", "join", "noop"}

\* the argument texts: no number, the empty text, integers, a fraction, and
\* the integers at and past the ends of i64
ArgTexts ==
    {<<"x">>, <<>>, <<"0">>, <<"2">>, <<"0", ".", "5">>,
     i64_to_string(I64Max), nat_text(I64Max + 1), i64_to_string(I64Min)}

\* the arguments: the Scalars of those texts, a Dict and a List
ArgValues == {String(t) : t \in ArgTexts} \cup {EmptyTree, ListX}

RECURSIVE ListsUpTo(_)
ListsUpTo(n) ==
    IF n = 0 THEN {<<>>}
    ELSE ListsUpTo(n - 1)
            \cup {Append(l, v) : l \in {q \in ListsUpTo(n - 1) : Len(q) = n - 1},
                                 v \in ArgValues}

ArgLists == ListsUpTo(MaxArgs)

InitFn ==
    /\ root = EmptyTree
    /\ alt = EmptyTree
    /\ pending \in ArgLists
    /\ last = [op |-> "none"]

\* apply(name, &pending), ending in one of its outcomes
Apply(name) ==
    /\ Unmodelled \notin apply(name, pending)
    /\ \E out \in apply(name, pending) :
          last' = [op |-> "apply", name |-> name, out |-> out]
    /\ UNCHANGED <<root, alt, pending>>

NextFn == \E name \in Names : Apply(name)

SpecFn == InitFn /\ [][NextFn]_vars

(***************************************************************************)
(* Properties of the functions                                             *)
(***************************************************************************)
Applied == last.op = "apply"

Arithmetic ==
    {"add", "subtract", "multiply", "divide", "power", "intdiv", "modulus"}

\* the error of each arithmetic function
ArithmeticError(name) ==
    CASE name = "add" -> Error("Addition requires two numeric arguments")
      [] name = "subtract" -> Error("Subtraction requires two numeric arguments")
      [] name = "multiply" -> Error("Multiplication requires two numeric arguments")
      [] name = "divide" -> Error("Division requires two numeric arguments")
      [] name = "power" -> Error("Power requires two numeric arguments")
      [] name = "intdiv" -> Error("Integer division requires two integer arguments")
      [] name = "modulus" -> Error("Modulus requires two integer arguments")

\* a Dict or a List among the first two arguments
NonScalarInFirstTwo(args) ==
    \E i \in 1..Len(args) : i <= 2 /\ ~is_string(args[i])

\* C6: convert succeeds only on exactly two arguments, both Scalars, both
\* parsing as the numeric type, and then returns them in argument order; so
\* every arithmetic function returns its error on a list of 0, 1, 3 or more
\* arguments, or with a Dict or a List among the first two.
C6Theorem ==
    /\ \A T \in {"i64", "f64"} :
          /\ convert(T, pending).ok <=>
                /\ Len(pending) = 2
                /\ is_string(pending[1]) /\ is_string(pending[2])
                /\ parse(T, pending[1].s).ok /\ parse(T, pending[2].s).ok
          /\ convert(T, pending).ok =>
                /\ convert(T, pending).val[1] = parse(T, pending[1].s).val
                /\ convert(T, pending).val[2] = parse(T, pending[2].s).val
    /\ (/\ Applied /\ last.name \in Arithmetic
        /\ (Len(pending) # 2 \/ NonScalarInFirstTwo(pending))) =>
            last.out = ArithmeticError(last.name)

\* add was called on three numbers and returned its error
C6Witness ==
    /\ Applied /\ last.name = "add"
    /\ Len(pending) = 3
    /\ \A i \in 1..3 : is_string(pending[i]) /\ parse_i64(pending[i].s).ok
    /\ last.out = Error("Addition requires two numeric arguments")

TwoScalars == Len(pending) = 2 /\ is_string(pending[1]) /\ is_string(pending[2])

IntOp(name, l, r) ==
    CASE name = "add" -> l + r
      [] name = "subtract" -> l - r
      [] name = "multiply" -> l * r

FloatOp(name, l, r) ==
    CASE name = "add" -> fadd(l, r)
      [] name = "subtract" -> fsub(l, r)
      [] name = "multiply" -> fmul(l, r)

\* what the retry as floating-point ends in
FloatRetry(name) ==
    IF parse_f64(pending[1].s).ok /\ parse_f64(pending[2].s).ok
    THEN \E t \in f64_to_string(FloatOp(name, parse_f64(pending[1].s).val,
                                               parse_f64(pending[2].s).val)) :
            last.out = OkText(t)
    ELSE last.out = ArithmeticError(name)

\* C7 as claimed: add, subtract and multiply on two Scalars return the text
\* of the integer result; when the integer attempt fails, by a text that is
\* no integer or by an overflow, they retry as floating-point, and return
\* their error only when both attempts fail.
C7Original ==
    (Applied /\ last.name \in {"add", "subtract", "multiply"} /\ TwoScalars) =>
        LET l == parse_i64(pending[1].s)
            r == parse_i64(pending[2].s)
        IN  IF l.ok /\ r.ok /\ InRange(IntOp(last.name, l.val, r.val))
            THEN last.out = OkText(i64_to_string(IntOp(last.name, l.val, r.val)))
            ELSE FloatRetry(last.name)

\* C7 amended: the retry as floating-point is made exactly when an argument
\* does not parse as i64 (no integer text, or an integer out of the range of
\* i64).  When both parse, the result is the text of the integer result if
\* it is in range; if it overflows there is no retry: the call panics, or
\* returns the text of the wrapped result.
C7Theorem ==
    (Applied /\ last.name \in {"add", "subtract", "multiply"} /\ TwoScalars) =>
        LET l == parse_i64(pending[1].s)
            r == parse_i64(pending[2].s)
        IN  IF l.ok /\ r.ok
            THEN IF InRange(IntOp(last.name, l.val, r.val))
                 THEN last.out = OkText(i64_to_string(IntOp(last.name, l.val, r.val)))
                 ELSE \/ last.out = Panicked
                      \/ last.out =
                            OkText(i64_to_string(wrap(IntOp(last.name, l.val, r.val))))
            ELSE FloatRetry(last.name)

\* add retried as floating-point on an integer text past i64::MAX
C7Witness ==
    /\ Applied /\ last.name = "add" /\ TwoScalars
    /\ pending[1].s = nat_text(I64Max + 1)
    /\ pending[2].s = <<"2">>
    /\ last.out = OkText(nat_text(I64Max + 3))

\* items i..N of the arguments, the separator before each but the first
RECURSIVE Separated(_, _)
Separated(args, i) ==
    IF i > Len(args) THEN <<>>
    ELSE (IF i > 2 THEN args[1].s ELSE <<>>) \o args[i].s \o Separated(args, i + 1)

\* C8: on Scalars alone join returns "Not enough arguments to join" exactly
\* when the list is empty, and else the Scalar of arguments 2..N joined by
\* the first; a Dict or a List among the arguments makes join fail.
C8Theorem ==
    (Applied /\ last.name = "join") =>
        IF \A i \in 1..Len(pending) : is_string(pending[i])
        THEN /\ last.out = Error("Not enough arguments to join") <=> pending = <<>>
             /\ pending # <<>> => last.out = OkText(Separated(pending, 2))
             /\ Len(pending) = 1 => last.out = OkText(<<>>)
             /\ Len(pending) = 2 => last.out = OkText(pending[2].s)
        ELSE last.out.kind = "Err"

\* join of a separator alone gave the empty text
C8Witness ==
    /\ Applied /\ last.name = "join"
    /\ pending = <<String(<<"x">>)>>
    /\ last.out = OkText(<<>>)

====
